---- MODULE Spec2Model ----
(***************************************************************************)
(* Receipt ingestion pipeline of the sugarcane dashboard:                  *)
(*   cleanJSON, analyzeReceipt   src/src/shared/lib/ai/client.ts            *)
(*   uploadFileSchema            src/src/features/upload/components/        *)
(*                               upload-dropzone.tsx                        *)
(*   uploadReceipt               src/src/features/upload/actions/upload.ts  *)
(*                                                                         *)
(* Nullable JavaScript values are tagged records: Null, Undefined, Val(x). *)
(* Strings the code builds are sequences of string pieces, so that         *)
(* concatenation, substring and join are computed and not assumed.         *)
(***************************************************************************)
EXTENDS Integers, Sequences, FiniteSets, TLC

\* ------------------------------------------------------------------ bounds

\* Number of ingestion attempts (invocations of uploadReceipt) in one run.
NumAttempts == 2
\* Math.random() suffixes an attempt may draw when it builds its path: 0..MaxRand.
MaxRand == 1
\* Number of manual corrections (updateReceipt, updateReceiptInline) in one run.
MaxCorrections == 1
\* Length, in tokens, of the longest text cleanJSON is called with.
MaxTextLen == 5

\* --------------------------------------------------------- nullable values

Null == [k |-> "null"]
Undefined == [k |-> "undefined"]
Val(x) == [k |-> "val", v |-> x]

IsVal(x) == x.k = "val"

\* JavaScript truthiness of a nullable number: null, undefined and 0 are falsy.
TruthyNum(x) == IsVal(x) /\ x.v # 0

Min(a, b) == IF a < b THEN a ELSE b

\* String.prototype.substring(from, to) on a sequence of characters, 0-based,
\* `to` exclusive and clamped to the length.
Substring(s, from, to) == SubSeq(s, from + 1, Min(to, Len(s)))

\* ------------------------------------------------------ the fallback chain

VISION_MODELS ==
    << "google/gemini-2.0-flash-exp:free",
       "qwen/qwen-2.5-vl-7b-instruct:free",
       "nvidia/nemotron-nano-12b-v2-vl:free" >>

\* ------------------------------------------------------------- cleanJSON

\* A model's text is a sequence of tokens.  "fence-json" (three backquotes and
\* json, in any case) and "fence" (three backquotes) are the two markers the
\* regular expressions match, "ws" is one whitespace
\* character, "{" and "}" are the braces, "txt" is any other character, and a
\* record [members |-> d] is the text of a well-formed member list of a JSON
\* object whose parse is d.
WS == [t |-> "ws"]
FenceJson == [t |-> "fence-json"]
Fence == [t |-> "fence"]
LBrace == [t |-> "{"]
RBrace == [t |-> "}"]
Txt == [t |-> "txt"]
Members(d) == [t |-> "members", d |-> d]

RECURSIVE DropWs(_)
DropWs(s) == IF s # <<>> /\ Head(s) = WS THEN DropWs(Tail(s)) ELSE s

\* String.prototype.replace with the global pattern marker-then-whitespace and
\* the empty replacement: every marker goes, with the whitespace after it.
RECURSIVE ReplaceMarker(_, _)
ReplaceMarker(s, marker) ==
    IF s = <<>> THEN <<>>
    ELSE IF Head(s) = marker THEN ReplaceMarker(DropWs(Tail(s)), marker)
    ELSE <<Head(s)>> \o ReplaceMarker(Tail(s), marker)

RECURSIVE DropTrailingWs(_)
DropTrailingWs(s) ==
    IF s # <<>> /\ s[Len(s)] = WS THEN DropTrailingWs(SubSeq(s, 1, Len(s) - 1)) ELSE s

Trim(s) == DropTrailingWs(DropWs(s))

\* String.prototype.indexOf / lastIndexOf: 0-based, -1 when absent.
IndexOf(s, c) ==
    IF \E i \in 1..Len(s) : s[i] = c
    THEN (CHOOSE i \in 1..Len(s) : s[i] = c /\ \A j \in 1..(i - 1) : s[j] # c) - 1
    ELSE -1

LastIndexOf(s, c) ==
    IF \E i \in 1..Len(s) : s[i] = c
    THEN (CHOOSE i \in 1..Len(s) : s[i] = c /\ \A j \in (i + 1)..Len(s) : s[j] # c) - 1
    ELSE -1

\* Mutant of cleanJSON: the markers are left in the text.
cleanJSONKeepsMarkers(rawText) ==
    IF rawText = <<>> THEN Null
    ELSE LET cleaned == Trim(rawText)
             firstBrace == IndexOf(cleaned, LBrace)
             lastBrace == LastIndexOf(cleaned, RBrace)
         IN  IF firstBrace = -1 \/ lastBrace = -1 \/ lastBrace < firstBrace
             THEN Null
             ELSE Val(Substring(cleaned, firstBrace, lastBrace + 1))

\* cleanJSON: null for an empty text; otherwise the text without its fence
\* markers, trimmed, from its first opening to its last closing brace.
cleanJSON(rawText) ==
    IF rawText = <<>> THEN Null
    ELSE LET cleaned == Trim(ReplaceMarker(ReplaceMarker(rawText, FenceJson), Fence))
             firstBrace == IndexOf(cleaned, LBrace)
             lastBrace == LastIndexOf(cleaned, RBrace)
         IN  IF firstBrace = -1 \/ lastBrace = -1 \/ lastBrace < firstBrace
             THEN Null
             ELSE Val(Substring(cleaned, firstBrace, lastBrace + 1))

\* ------------------------------------------------------------ JSON.parse

Fields == {"supplier_name", "date", "total_amount", "cane_type", "weight_net", "price_per_ton"}

\* The object {} : every expected field is undefined.
EmptyObject == [f \in Fields |-> Undefined]

NoWs(s) == SelectSeq(s, LAMBDA c : c # WS)

SyntaxErrorMessage == <<"Unexpected token">>

\* JSON.parse of a text: the parsed object, or the SyntaxError it throws.
\* Whitespace between tokens is insignificant; the text must be one object.
JSONParse(text) ==
    LET s == NoWs(text)
    IN  IF s = <<LBrace, RBrace>> THEN [ok |-> TRUE, value |-> EmptyObject]
        ELSE IF Len(s) = 3 /\ s[1] = LBrace /\ s[3] = RBrace /\ s[2].t = "members"
        THEN [ok |-> TRUE, value |-> s[2].d]
        ELSE [ok |-> FALSE, message |-> SyntaxErrorMessage]

\* ---------------------------------------------------------- analyzeReceipt

\* Array.prototype.join(sep) on strings that are sequences of pieces.
RECURSIVE Join(_, _)
Join(strs, sep) ==
    IF strs = <<>> THEN <<>>
    ELSE IF Len(strs) = 1 THEN strs[1]
    ELSE strs[1] \o sep \o Join(Tail(strs), sep)

NotConfiguredError == <<"AI client not configured (missing OPENROUTER_API_KEY)">>
AllFailedPrefix == <<"All AI models failed for OCR extraction. Details: ">>
Separator == <<" | ">>

\* Length at which a caught exception's message is cut in a diagnostic.
DiagnosticLimit == 50

\* Mutant of getAIClient: a client is constructed whether or not the API key
\* is set.
getAIClientWithoutKey(cached, apiKeySet) == TRUE

\* getAIClient: the cached singleton if there is one, otherwise a new client
\* when the API key is set, otherwise null.  The result is whether a client
\* is returned; the singleton is cached exactly when one is returned.
getAIClient(cached, apiKeySet) == cached \/ apiKeySet

\* The message of a caught value: error.message, or String(error).
ErrorMsg(thrown) == thrown.message

\* Mutant of TryModel: a parse failure is swallowed and the iteration returns
\* without data instead of recording a diagnostic.
TryModelSwallowsParseError(model, resp) ==
    IF resp.kind = "throw"
    THEN [ok |-> FALSE,
          diag |-> <<model, ": ">> \o Substring(ErrorMsg(resp), 0, DiagnosticLimit)]
    ELSE IF resp.content = <<>>
    THEN [ok |-> FALSE, diag |-> <<model, ": ", "Empty response">>]
    ELSE LET jsonString == cleanJSON(resp.content)
         IN  IF jsonString = Null
             THEN [ok |-> FALSE, diag |-> <<model, ": ", "Invalid JSON structure">>]
             ELSE LET parsed == JSONParse(jsonString.v)
                  IN  [ok |-> TRUE, data |-> IF parsed.ok THEN Val(parsed.value) ELSE Null]

\* One iteration of the loop over VISION_MODELS: the request to `model` is
\* answered by `resp`, which is either [kind |-> "throw", message |-> m]
\* (the call raised or timed out) or [kind |-> "content", content |-> c]
\* (c is the text of choices[0].message.content, <<>> when it is missing or
\* empty).  The iteration either returns (ok, with the parsed data) or pushes
\* one diagnostic and continues.
TryModel(model, resp) ==
    IF resp.kind = "throw"
    THEN [ok |-> FALSE,
          diag |-> <<model, ": ">> \o Substring(ErrorMsg(resp), 0, DiagnosticLimit)]
    ELSE IF resp.content = <<>>
    THEN [ok |-> FALSE, diag |-> <<model, ": ", "Empty response">>]
    ELSE LET jsonString == cleanJSON(resp.content)
         IN  IF jsonString = Null
             THEN [ok |-> FALSE, diag |-> <<model, ": ", "Invalid JSON structure">>]
             ELSE LET parsed == JSONParse(jsonString.v)
                  IN  IF parsed.ok
                      THEN [ok |-> TRUE, data |-> Val(parsed.value)]
                      ELSE [ok |-> FALSE,
                            diag |-> <<model, ": ">>
                                     \o Substring(parsed.message, 0, DiagnosticLimit)]

\* Mutant of AllModelsFailed: only the last diagnostic is reported.
AllModelsFailedLastOnly(errors) ==
    [data |-> Null, error |-> Val(AllFailedPrefix \o errors[Len(errors)])]

\* The return after the loop: every model failed.
AllModelsFailed(errors) ==
    [data |-> Null, error |-> Val(AllFailedPrefix \o Join(errors, Separator))]

\* The loop from model i on, as a function of the service's answers
\* (responses[i] answers the request to VISION_MODELS[i], if it is issued).
\* `requests` lists the models a request was issued to, in order.
RECURSIVE AnalyzeFrom(_, _, _)
AnalyzeFrom(i, errors, responses) ==
    IF i > Len(VISION_MODELS)
    THEN [res |-> AllModelsFailed(errors), requests |-> SubSeq(VISION_MODELS, 1, i - 1)]
    ELSE LET r == TryModel(VISION_MODELS[i], responses[i])
         IN  IF r.ok
             THEN [res |-> [data |-> r.data, error |-> Null],
                   requests |-> SubSeq(VISION_MODELS, 1, i)]
             ELSE AnalyzeFrom(i + 1, Append(errors, r.diag), responses)

analyzeReceipt(client, responses) ==
    IF ~client
    THEN [res |-> [data |-> Null, error |-> Val(NotConfiguredError)], requests |-> <<>>]
    ELSE AnalyzeFrom(1, <<>>, responses)

\* ------------------------------------------- inputs: the inference service

\* An extraction in which exactly the fields of `filled` have a value and the
\* others are null.
DataWith(filled) ==
    [f \in Fields |->
        IF f \notin filled THEN Null
        ELSE IF f \in {"total_amount", "weight_net", "price_per_ton"} THEN Val(3000)
        ELSE Val("text")]

SampleData ==
    { DataWith(Fields),
      DataWith({"supplier_name", "date", "total_amount"}),
      DataWith({"supplier_name", "date"}),
      DataWith({}) }

LongMessage == [i \in 1..(DiagnosticLimit + 1) |-> "x"]

SampleContents ==
    { <<>>,                                   \* empty content
      <<Txt, Txt>>,                           \* prose, no braces
      <<RBrace, Txt, LBrace>>,                \* closing brace before opening
      <<LBrace, Txt, RBrace>>,                \* braces around something unparseable
      <<Fence, WS, LBrace, RBrace, WS, Fence>> }
    \cup { <<Txt, WS, FenceJson, WS, LBrace, Members(d), RBrace, WS, Fence>> : d \in SampleData }

Responses ==
    [kind : {"throw"}, message : {<<"Request timed out.">>, LongMessage}]
    \cup [kind : {"content"}, content : SampleContents]

\* ------------------------------------------------------- uploadFileSchema

MAX_FILE_SIZE == 5 * 1024 * 1024
ALLOWED_TYPES == {"image/jpeg", "image/jpg", "image/png", "image/webp"}

\* The value of formData.get("file"): null, a string (a form field that is
\* not a file), or a File with a size, a MIME type and a name.  A name is
\* the sequence of its parts between dots, so that split(".").pop() is the
\* last part.
NotAFile == [k |-> "string"]
File(size, type, name) == Val([size |-> size, type |-> type, name |-> name])

\* Mutant of uploadFileSchema: the size test is strict, as its message says.
uploadFileSchemaStrict(file) ==
    IF ~IsVal(file) THEN [success |-> FALSE, issues |-> << <<"File is required">> >>]
    ELSE LET sizeIssue == IF file.v.size < MAX_FILE_SIZE THEN <<>>
                          ELSE << <<"File size must be less than 5MB">> >>
             typeIssue == IF file.v.type \in ALLOWED_TYPES THEN <<>>
                          ELSE << <<"Only JPEG, PNG, and WebP images are allowed">> >>
         IN  [success |-> sizeIssue \o typeIssue = <<>>, issues |-> sizeIssue \o typeIssue]

\* uploadFileSchema.safeParse({ file }): success, or the issues in order.
\* instanceof File fails first; the two refinements are both evaluated.
uploadFileSchema(file) ==
    IF ~IsVal(file) THEN [success |-> FALSE, issues |-> << <<"File is required">> >>]
    ELSE LET sizeIssue == IF file.v.size <= MAX_FILE_SIZE THEN <<>>
                          ELSE << <<"File size must be less than 5MB">> >>
             typeIssue == IF file.v.type \in ALLOWED_TYPES THEN <<>>
                          ELSE << <<"Only JPEG, PNG, and WebP images are allowed">> >>
         IN  [success |-> sizeIssue \o typeIssue = <<>>, issues |-> sizeIssue \o typeIssue]

\* ------------------------------------------------------ uploadReceipt: data

Users == {"u1", "u2"}
Attempts == 1..NumAttempts

FormFiles ==
    { Null, NotAFile,
      File(MAX_FILE_SIZE, "image/jpeg", <<"receipt", "jpg">>),
      File(MAX_FILE_SIZE + 1, "image/png", <<"big", "png">>),
      File(1, "application/pdf", <<"doc", "pdf">>),
      File(MAX_FILE_SIZE + 1, "image/gif", <<"anim", "gif">>) }

Success(receiptId, data) == [success |-> TRUE, receiptId |-> receiptId, ocrData |-> data]
Failure(error) == [success |-> FALSE, error |-> error]

UnauthorizedError == <<"Unauthorized - Please login to upload receipts">>
NoFileError == <<"No file provided">>
UploadFailed(message) == <<"Failed to upload file: ">> \o message
InsertFailed(message) == <<"Failed to create receipt record: ">> \o message

\* What a collaborator throws: an Error with a message, or some other value.
Thrown(who) ==
    { [isError |-> TRUE, message |-> <<who, " threw">>] }
    \cup IF who = "getUser" THEN { [isError |-> FALSE, message |-> <<who, " rejected">>] }
         ELSE {}

\* The outer catch of uploadReceipt.
CatchResult(err) ==
    Failure(IF err.isError THEN err.message ELSE <<"An unexpected error occurred">>)

\* The confidence of an extraction: the share of the six expected fields
\* that are neither null nor undefined, as Math.round of a percentage.
FilledFields(data) == {f \in Fields : data[f] # Null /\ data[f] # Undefined}
\* The column receipts.ocr_confidence_score: DECIMAL(3, 2), declared to hold
\* 0.00 to 1.00.
OcrConfidenceScoreColumn == [precision |-> 3, scale |-> 2, min |-> 0, max |-> 1]

\* Mutant of Round: the fraction is cut off, as Math.floor does.
RoundDown(num, den) == num \div den

\* Math.round(num / den) of a non-negative fraction.
Round(num, den) == (2 * num + den) \div (2 * den)
Confidence(data) == Round(Cardinality(FilledFields(data)) * 100, Cardinality(Fields))

\* Mutant of Status: an extraction without data is recorded as failed.
StatusFailedWithoutData(ocrData, ocrConfidence) ==
    IF IsVal(ocrData) /\ TruthyNum(ocrConfidence) /\ ocrConfidence.v >= 50 THEN "completed"
    ELSE IF IsVal(ocrData) THEN "processing"
    ELSE "failed"

\* The status written with the record.
Status(ocrData, ocrConfidence) ==
    IF IsVal(ocrData) /\ TruthyNum(ocrConfidence) /\ ocrConfidence.v >= 50 THEN "completed"
    ELSE IF IsVal(ocrData) THEN "processing"
    ELSE "pending"

\* x ?? null on a field of the extraction (optional chaining on ocrData).
OrNull(ocrData, f) ==
    IF IsVal(ocrData) /\ IsVal(ocrData.v[f]) THEN ocrData.v[f] ELSE Null

\* JSON.parse(JSON.stringify(data)) of an object that JSON.parse produced:
\* keys whose value is undefined are not written, so they stay absent.
JsonRoundTrip(data) == [f \in Fields |-> IF data[f] = Undefined THEN Undefined ELSE data[f]]

\* storage.getPublicUrl(path)
PublicUrl(path) == [bucket |-> "receipts", path |-> path]

\* Mutant of InsertPayload: the insert marks the record as verified when the
\* extraction filled every field.
InsertPayloadVerifies(userId, file, path, ocrData, ocrConfidence, ocrError) ==
    [ user_id |-> userId,
      status |-> Status(ocrData, ocrConfidence),
      verification_status |-> IF ocrConfidence = Val(100) THEN "verified" ELSE "unverified",
      image_url |-> PublicUrl(path),
      image_filename |-> file.name,
      supplier_name |-> OrNull(ocrData, "supplier_name"),
      transaction_date |-> OrNull(ocrData, "date"),
      total_amount |-> OrNull(ocrData, "total_amount"),
      weight_kg |-> OrNull(ocrData, "weight_net"),
      price_per_kg |-> IF IsVal(ocrData) /\ TruthyNum(ocrData.v["price_per_ton"])
                       THEN Val([num |-> ocrData.v["price_per_ton"].v, den |-> 1000])
                       ELSE Null,
      raw_ocr_data |-> IF IsVal(ocrData) THEN Val(JsonRoundTrip(ocrData.v)) ELSE Null,
      ocr_confidence_score |-> ocrConfidence,
      processed_at |-> IF IsVal(ocrData) THEN Val("now") ELSE Null,
      error_message |-> ocrError ]

\* The object passed to insert().
InsertPayload(userId, file, path, ocrData, ocrConfidence, ocrError) ==
    [ user_id |-> userId,
      status |-> Status(ocrData, ocrConfidence),
      image_url |-> PublicUrl(path),
      image_filename |-> file.name,
      supplier_name |-> OrNull(ocrData, "supplier_name"),
      transaction_date |-> OrNull(ocrData, "date"),
      total_amount |-> OrNull(ocrData, "total_amount"),
      weight_kg |-> OrNull(ocrData, "weight_net"),
      price_per_kg |-> IF IsVal(ocrData) /\ TruthyNum(ocrData.v["price_per_ton"])
                       THEN Val([num |-> ocrData.v["price_per_ton"].v, den |-> 1000])
                       ELSE Null,
      raw_ocr_data |-> IF IsVal(ocrData) THEN Val(JsonRoundTrip(ocrData.v)) ELSE Null,
      ocr_confidence_score |-> ocrConfidence,
      processed_at |-> IF IsVal(ocrData) THEN Val("now") ELSE Null,
      error_message |-> ocrError ]

\* The row the relational store keeps for a payload: the generated id and the
\* column default of verification_status are added.
Row(id, payload) ==
    [ id |-> id,
      verification_status |-> "unverified",
      updated_at |-> "NOW() at insert",
      user_id |-> payload.user_id,
      status |-> payload.status,
      image_url |-> payload.image_url,
      image_filename |-> payload.image_filename,
      supplier_name |-> payload.supplier_name,
      transaction_date |-> payload.transaction_date,
      total_amount |-> payload.total_amount,
      weight_kg |-> payload.weight_kg,
      price_per_kg |-> payload.price_per_kg,
      raw_ocr_data |-> payload.raw_ocr_data,
      ocr_confidence_score |-> payload.ocr_confidence_score,
      processed_at |-> payload.processed_at,
      error_message |-> payload.error_message ]

\* Behaviours of the inference service that an ingestion attempt may meet:
\* the answers to the requests to the three models, in chain order.
Ok(d) == [kind |-> "content", content |-> <<FenceJson, WS, LBrace, Members(d), RBrace, WS, Fence>>]
Timeout == [kind |-> "throw", message |-> <<"Request timed out.">>]
Empty == [kind |-> "content", content |-> <<>>]
Prose == [kind |-> "content", content |-> <<Txt, Txt>>]
BadJson == [kind |-> "content", content |-> <<LBrace, Txt, RBrace>>]

ServiceBehaviours ==
    { <<Ok(DataWith(Fields)), Timeout, Timeout>>,
      <<Empty, Ok(DataWith({})), Timeout>>,
      <<Timeout, Prose, BadJson>> }

\* file.name.split(".").pop()
FileExt(name) == name[Len(name)]

\* The object-store path of an attempt: owner id, Date.now(), a random
\* suffix and the extension of the file name.
FileName(userId, now, random, fileExt) ==
    [owner |-> userId, ts |-> now, rnd |-> random, ext |-> fileExt]

\* ----------------------------------------------------------------- state

VARIABLES
    pc,                \* pc[a]: the step attempt a is at
    file,              \* locals of uploadReceipt, per attempt:
    user,
    ocrData,
    ocrError,
    ocrConfidence,
    fileName,
    dbError,
    receipt,
    result,            \* result[a]: what attempt a returned, or Undefined
    calls,             \* calls[a]: the collaborator calls attempt a issued, in order
    blobs,             \* the object store: the set of [path, by] it holds
    receipts,          \* the relational store: the set of rows of the table
    nextId,            \* the id the relational store gives the next row
    apiKeySet,         \* process.env.OPENROUTER_API_KEY is set
    openRouterClient,  \* the client singleton of the module is cached
    exPc,              \* one run of analyzeReceipt, step by step:
    exIndex,           \*   the index of the model the loop is at
    exErrors,          \*   the local `errors`
    exRequests,        \*   the models a request was issued to, in order
    exResponses,       \*   the answers received, in order
    exResult,          \*   what the run returned, or Undefined
    correction,        \* the last manual correction: its input, user and result
    numCorrections,    \* the number of manual corrections invoked so far
    scResult,          \* the extractor result given to the scoring step of
    scData,            \*   uploadReceipt, and the ocrData, ocrError,
    scError,           \*   ocrConfidence and status that the step derives
    scConfidence,
    scStatus,
    cjRawText,         \* the text cleanJSON was called with, and what it
    cjResult           \*   returned

attemptVars ==
    <<pc, file, user, ocrData, ocrError, ocrConfidence, fileName, dbError, receipt,
      result, calls>>
storeVars == <<blobs, receipts, nextId>>
clientVars == <<apiKeySet, openRouterClient>>
exVars == <<exPc, exIndex, exErrors, exRequests, exResponses, exResult>>
correctionVars == <<correction, numCorrections>>
scVars == <<scResult, scData, scError, scConfidence, scStatus>>
cjVars == <<cjRawText, cjResult>>
pureVars == <<scVars, cjVars>>
vars == <<attemptVars, storeVars, clientVars, exVars, correctionVars, pureVars>>

Init ==
    /\ pc = [a \in Attempts |-> "start"]
    /\ file = [a \in Attempts |-> Undefined]
    /\ user = [a \in Attempts |-> Undefined]
    /\ ocrData = [a \in Attempts |-> Null]
    /\ ocrError = [a \in Attempts |-> Null]
    /\ ocrConfidence = [a \in Attempts |-> Null]
    /\ fileName = [a \in Attempts |-> Undefined]
    /\ dbError = [a \in Attempts |-> Undefined]
    /\ receipt = [a \in Attempts |-> Undefined]
    /\ result = [a \in Attempts |-> Undefined]
    /\ calls = [a \in Attempts |-> <<>>]
    /\ blobs = {}
    /\ receipts = {}
    /\ nextId = 1
    /\ apiKeySet \in BOOLEAN
    /\ openRouterClient = FALSE
    /\ exPc = "start"
    /\ exIndex = 1
    /\ exErrors = <<>>
    /\ exRequests = <<>>
    /\ exResponses = <<>>
    /\ exResult = Undefined
    /\ correction = Undefined
    /\ numCorrections = 0
    /\ scResult = Undefined
    /\ scData = Null
    /\ scError = Null
    /\ scConfidence = Null
    /\ scStatus = Undefined
    /\ cjRawText = Undefined
    /\ cjResult = Undefined

\* A collaborator call and how it ended: "ok", "error" (an error was
\* returned) or "throw".
Call(a, c) == calls' = [calls EXCEPT ![a] = Append(@, c)]
Return(a, r) == /\ result' = [result EXCEPT ![a] = r]
                /\ pc' = [pc EXCEPT ![a] = "done"]
Goto(a, label) == pc' = [pc EXCEPT ![a] = label]

\* ------------------------------------------------- uploadReceipt: steps

\* Mutant of Unauthorized: the check of the user is missing.
UnauthorizedNever(u) == FALSE

\* if (!user)
Unauthorized(u) == u = Null

\* [1] The invocation, createClient() and getUser().  Attempts are numbered
\* in the order in which they are invoked.
AuthCheck(a) ==
    /\ pc[a] = "start"
    /\ \A b \in Attempts : b < a => pc[b] # "start"
    /\ \/ \E u \in {Val(id) : id \in Users} \cup {Null} :
            /\ user' = [user EXCEPT ![a] = u]
            /\ Call(a, [op |-> "getUser", outcome |-> "ok"])
            /\ IF Unauthorized(u)
               THEN Return(a, Failure(UnauthorizedError))
               ELSE Goto(a, "validate") /\ UNCHANGED result
       \/ \E err \in Thrown("getUser") :
            /\ Call(a, [op |-> "getUser", outcome |-> "throw"])
            /\ Return(a, CatchResult(err))
            /\ UNCHANGED user
    /\ UNCHANGED <<file, ocrData, ocrError, ocrConfidence, fileName, dbError, receipt>>
    /\ UNCHANGED <<storeVars, clientVars, exVars, correctionVars, pureVars>>

\* [2] formData.get("file"): the file is present and passes uploadFileSchema.
Validate(a) ==
    /\ pc[a] = "validate"
    /\ \E f \in FormFiles :
         /\ file' = [file EXCEPT ![a] = f]
         /\ IF f = Null
            THEN Return(a, Failure(NoFileError))
            ELSE LET validationResult == uploadFileSchema(f)
                 IN  IF ~validationResult.success
                     THEN Return(a, Failure(validationResult.issues[1]))
                     ELSE Goto(a, "extract") /\ UNCHANGED result
    /\ UNCHANGED <<user, ocrData, ocrError, ocrConfidence, fileName, dbError, receipt, calls>>
    /\ UNCHANGED <<storeVars, clientVars, exVars, correctionVars, pureVars>>

\* Mutant of OcrOutcome: a failed extraction is given the confidence 0.
OcrOutcomeScoresFailure(ocrResult) ==
    IF IsVal(ocrResult.error)
    THEN [ocrData |-> Null, ocrError |-> ocrResult.error, ocrConfidence |-> Val(0)]
    ELSE IF IsVal(ocrResult.data)
    THEN [ocrData |-> ocrResult.data, ocrError |-> Null,
          ocrConfidence |-> Val(Confidence(ocrResult.data.v))]
    ELSE [ocrData |-> Null, ocrError |-> Null, ocrConfidence |-> Null]

\* [4] The locals ocrData, ocrError and ocrConfidence, which start as null,
\* after the result of analyzeReceipt has been read.
OcrOutcome(ocrResult) ==
    IF IsVal(ocrResult.error)
    THEN [ocrData |-> Null, ocrError |-> ocrResult.error, ocrConfidence |-> Null]
    ELSE IF IsVal(ocrResult.data)
    THEN [ocrData |-> ocrResult.data, ocrError |-> Null,
          ocrConfidence |-> Val(Confidence(ocrResult.data.v))]
    ELSE [ocrData |-> Null, ocrError |-> Null, ocrConfidence |-> Null]

\* analyzeReceipt(base64Image, file.type), tabulated over the state of the
\* client and the behaviours of the inference service.
AnalyzeReceiptRuns ==
    [client \in BOOLEAN, responses \in ServiceBehaviours |-> analyzeReceipt(client, responses)]

\* [3], [4] analyzeReceipt on the image, and the confidence of its data.
Extract(a) ==
    /\ pc[a] = "extract"
    /\ \E responses \in ServiceBehaviours :
         LET client == getAIClient(openRouterClient, apiKeySet)
             run == AnalyzeReceiptRuns[client, responses]
             ocrResult == run.res
         IN  /\ openRouterClient' = client
             /\ calls' = [calls EXCEPT ![a] =
                    @ \o [i \in 1..Len(run.requests) |->
                            [op |-> "infer", model |-> run.requests[i],
                             outcome |-> IF responses[i].kind = "throw"
                                         THEN "throw" ELSE "ok"]]]
             /\ ocrData' = [ocrData EXCEPT ![a] = OcrOutcome(ocrResult).ocrData]
             /\ ocrError' = [ocrError EXCEPT ![a] = OcrOutcome(ocrResult).ocrError]
             /\ ocrConfidence' = [ocrConfidence EXCEPT ![a] =
                    OcrOutcome(ocrResult).ocrConfidence]
    /\ Goto(a, "upload")
    /\ UNCHANGED <<file, user, fileName, dbError, receipt, result>>
    /\ UNCHANGED <<storeVars, apiKeySet, exVars, correctionVars, pureVars>>

Paths == {b.path : b \in blobs}

\* Date.now() when the path is built.  The attempts of a run fall into the
\* same millisecond: the case in which only the owner id and the random
\* suffix tell two paths apart.
Now == {"1768780800000"}

\* Mutant of PutRefused: the put is made with upsert enabled and overwrites.
PutNeverRefused(path) == FALSE

\* upload(..., {upsert: false}): the object store refuses a path it holds.
PutRefused(path) == path \in Paths

\* Mutant of Upload: an upload error is logged and the attempt goes on to
\* the insert.
UploadGoesOn(a) ==
    /\ pc[a] = "upload"
    /\ \E now \in Now, random \in 0..MaxRand :
         LET path == FileName(user[a].v, now, random, FileExt(file[a].v.name))
         IN  /\ fileName' = [fileName EXCEPT ![a] = Val(path)]
             /\ \/ /\ ~PutRefused(path)
                   /\ Call(a, [op |-> "upload", path |-> path, outcome |-> "ok"])
                   /\ blobs' = blobs \cup {[path |-> path, by |-> a]}
                \/ Call(a, [op |-> "upload", path |-> path, outcome |-> "error"])
                   /\ UNCHANGED blobs
             /\ Goto(a, "insert")
             /\ UNCHANGED result
    /\ UNCHANGED <<file, user, ocrData, ocrError, ocrConfidence, dbError, receipt>>
    /\ UNCHANGED <<receipts, nextId, clientVars, exVars, correctionVars, pureVars>>

\* Mutant of Upload: a put that fails with an error is issued again.
UploadRetries(a) ==
    /\ pc[a] = "upload"
    /\ \E now \in Now, random \in 0..MaxRand :
         LET path == FileName(user[a].v, now, random, FileExt(file[a].v.name))
         IN  /\ fileName' = [fileName EXCEPT ![a] = Val(path)]
             /\ \/ /\ ~PutRefused(path)
                   /\ Call(a, [op |-> "upload", path |-> path, outcome |-> "ok"])
                   /\ blobs' = blobs \cup {[path |-> path, by |-> a]}
                   /\ Goto(a, "insert")
                \/ /\ Call(a, [op |-> "upload", path |-> path, outcome |-> "error"])
                   /\ Goto(a, "upload")
                   /\ UNCHANGED blobs
             /\ UNCHANGED result
    /\ UNCHANGED <<file, user, ocrData, ocrError, ocrConfidence, dbError, receipt>>
    /\ UNCHANGED <<receipts, nextId, clientVars, exVars, correctionVars, pureVars>>

\* [5] storage.upload(fileName, buffer, {upsert: false}).  If the store does
\* not refuse the path the put succeeds, or fails with an error, or the call
\* throws.
Upload(a) ==
    /\ pc[a] = "upload"
    /\ \E now \in Now, random \in 0..MaxRand :
         LET path == FileName(user[a].v, now, random, FileExt(file[a].v.name))
         IN  /\ fileName' = [fileName EXCEPT ![a] = Val(path)]
             /\ \/ /\ ~PutRefused(path)
                   /\ Call(a, [op |-> "upload", path |-> path, outcome |-> "ok"])
                   /\ blobs' = blobs \cup {[path |-> path, by |-> a]}
                   /\ Goto(a, "insert")
                   /\ UNCHANGED result
                \/ /\ Call(a, [op |-> "upload", path |-> path, outcome |-> "error"])
                   /\ \E message \in IF PutRefused(path)
                                     THEN {<<"The resource already exists">>}
                                     ELSE {<<"Bucket not found">>} :
                        Return(a, Failure(UploadFailed(message)))
                   /\ UNCHANGED blobs
                \/ /\ Call(a, [op |-> "upload", path |-> path, outcome |-> "throw"])
                   /\ \E err \in Thrown("upload") : Return(a, CatchResult(err))
                   /\ UNCHANGED blobs
    /\ UNCHANGED <<file, user, ocrData, ocrError, ocrConfidence, dbError, receipt>>
    /\ UNCHANGED <<receipts, nextId, clientVars, exVars, correctionVars, pureVars>>

\* Mutant of Insert: the insert is an upsert per owner: a successful insert
\* replaces the rows the owner already has.
InsertReplacesOwnRows(a) ==
    /\ pc[a] = "insert"
    /\ LET payload == InsertPayload(user[a].v, file[a].v, fileName[a].v,
                                    ocrData[a], ocrConfidence[a], ocrError[a])
       IN  \/ /\ Call(a, [op |-> "insert", payload |-> payload, outcome |-> "ok"])
              /\ receipts' = {r \in receipts : r.user_id # user[a].v}
                                \cup {Row(nextId, payload)}
              /\ nextId' = nextId + 1
              /\ receipt' = [receipt EXCEPT ![a] = Val([id |-> nextId])]
              /\ dbError' = [dbError EXCEPT ![a] = Null]
              /\ Goto(a, "revalidate")
              /\ UNCHANGED result
           \/ /\ Call(a, [op |-> "insert", payload |-> payload, outcome |-> "error"])
              /\ receipt' = [receipt EXCEPT ![a] = Null]
              /\ dbError' = [dbError EXCEPT ![a] =
                     Val([message |-> <<"new row violates row-level security policy">>])]
              /\ Goto(a, "remove")
              /\ UNCHANGED <<receipts, nextId, result>>
    /\ UNCHANGED <<file, user, ocrData, ocrError, ocrConfidence, fileName>>
    /\ UNCHANGED <<blobs, clientVars, exVars, correctionVars, pureVars>>

\* [6] from("receipts").insert(...).select("id").single().  On success the
\* attempt goes on to the cache invalidation; with dbError set it goes to the
\* cleanup; a throw is taken by the outer catch.
Insert(a) ==
    /\ pc[a] = "insert"
    /\ LET payload == InsertPayload(user[a].v, file[a].v, fileName[a].v,
                                    ocrData[a], ocrConfidence[a], ocrError[a])
       IN  \/ /\ Call(a, [op |-> "insert", payload |-> payload, outcome |-> "ok"])
              /\ receipts' = receipts \cup {Row(nextId, payload)}
              /\ nextId' = nextId + 1
              /\ receipt' = [receipt EXCEPT ![a] = Val([id |-> nextId])]
              /\ dbError' = [dbError EXCEPT ![a] = Null]
              /\ Goto(a, "revalidate")
              /\ UNCHANGED result
           \/ /\ Call(a, [op |-> "insert", payload |-> payload, outcome |-> "error"])
              /\ receipt' = [receipt EXCEPT ![a] = Null]
              /\ dbError' = [dbError EXCEPT ![a] =
                     Val([message |-> <<"new row violates row-level security policy">>])]
              /\ Goto(a, "remove")
              /\ UNCHANGED <<receipts, nextId, result>>
           \/ /\ Call(a, [op |-> "insert", payload |-> payload, outcome |-> "throw"])
              /\ \E err \in Thrown("insert") : Return(a, CatchResult(err))
              /\ UNCHANGED <<receipts, nextId, receipt, dbError>>
    /\ UNCHANGED <<file, user, ocrData, ocrError, ocrConfidence, fileName>>
    /\ UNCHANGED <<blobs, clientVars, exVars, correctionVars, pureVars>>

\* Mutant of RemoveObjects: the cleanup names an object that is not there
\* (the public URL in place of the path), so nothing is removed.
RemoveNothing(path) == blobs

\* Mutant of RemoveObjects: the cleanup removes the folder of the owner.
RemoveObjectsOfOwner(path) == {b \in blobs : b.path.owner # path.owner}

\* What storage.remove([path]) leaves in the object store when it succeeds.
RemoveObjects(path) == {b \in blobs : b.path # path}

\* The cleanup after a failed insert: storage.remove([fileName]), whose
\* result is not read, and then the return of the insert's error.
Remove(a) ==
    /\ pc[a] = "remove"
    /\ \/ /\ Call(a, [op |-> "remove", path |-> fileName[a].v, outcome |-> "ok"])
          /\ blobs' = RemoveObjects(fileName[a].v)
          /\ Return(a, Failure(InsertFailed(dbError[a].v.message)))
       \/ /\ Call(a, [op |-> "remove", path |-> fileName[a].v, outcome |-> "error"])
          /\ UNCHANGED blobs
          /\ Return(a, Failure(InsertFailed(dbError[a].v.message)))
       \/ /\ Call(a, [op |-> "remove", path |-> fileName[a].v, outcome |-> "throw"])
          /\ UNCHANGED blobs
          /\ \E err \in Thrown("remove") : Return(a, CatchResult(err))
    /\ UNCHANGED <<file, user, ocrData, ocrError, ocrConfidence, fileName, dbError, receipt>>
    /\ UNCHANGED <<receipts, nextId, clientVars, exVars, correctionVars, pureVars>>

\* Mutant of Revalidate: the cache invalidation is outside the try block, so
\* what it throws leaves uploadReceipt as an exception.
RevalidateOutsideTry(a) ==
    /\ pc[a] = "revalidate"
    /\ \/ /\ Call(a, [op |-> "revalidatePath", outcome |-> "ok"])
          /\ Return(a, Success(receipt[a].v.id,
                               IF IsVal(ocrData[a]) THEN ocrData[a] ELSE Undefined))
       \/ /\ Call(a, [op |-> "revalidatePath", outcome |-> "throw"])
          /\ Goto(a, "raised")
          /\ UNCHANGED result
    /\ UNCHANGED <<file, user, ocrData, ocrError, ocrConfidence, fileName, dbError, receipt>>
    /\ UNCHANGED <<storeVars, clientVars, exVars, correctionVars, pureVars>>

\* [7] revalidatePath twice, and the successful return.
Revalidate(a) ==
    /\ pc[a] = "revalidate"
    /\ \/ /\ Call(a, [op |-> "revalidatePath", outcome |-> "ok"])
          /\ Return(a, Success(receipt[a].v.id,
                               IF IsVal(ocrData[a]) THEN ocrData[a] ELSE Undefined))
       \/ /\ Call(a, [op |-> "revalidatePath", outcome |-> "throw"])
          /\ \E err \in Thrown("revalidatePath") : Return(a, CatchResult(err))
    /\ UNCHANGED <<file, user, ocrData, ocrError, ocrConfidence, fileName, dbError, receipt>>
    /\ UNCHANGED <<storeVars, clientVars, exVars, correctionVars, pureVars>>

Next ==
    \E a \in Attempts :
        \/ AuthCheck(a)
        \/ Validate(a)
        \/ Extract(a)
        \/ Upload(a)
        \/ Insert(a)
        \/ Remove(a)
        \/ Revalidate(a)

Spec == Init /\ [][Next]_vars

\* Every call uploadReceipt awaits settles: it returns or it throws (the
\* inference client gives up after its timeout), so an attempt that can take
\* a step takes one.
SpecFair == Spec /\ WF_vars(Next)

\* ------------------------------------ manual correction: the submission

\* The database enum receipt_status.
receipt_status == {"pending", "processing", "completed", "failed"}

\* The status values the form may carry.
RECEIPT_STATUS == {"pending", "completed", "failed"}

\* A form value for id: the uuid of row n, or a text that is no uuid.
Uuid(n) == [k |-> "uuid", n |-> n]
NoUuid == [k |-> "text"]

\* A form value for supplier_name: the text and its length.
Name(text, length) == [text |-> text, length |-> length]

\* A form value for transaction_date: the text, and whether new Date(text)
\* is a valid date.
DateText(text, isDate) == [text |-> text, isDate |-> isDate]

\* z.coerce.number().min(0).optional().nullable() on a value that is absent,
\* null or a number.
NonNegative(x) == IsVal(x) => x.v >= 0

\* The transform of transaction_date.
TransformDate(val) ==
    IF val = Undefined \/ val.v.text = "" THEN Null
    ELSE IF ~val.v.isDate THEN Null
    ELSE Val(val.v.text)

\* updateReceiptSchema.safeParse(rawData): the parsed data, or the names of
\* the fields that have errors.
updateReceiptSchema(rawData) ==
    LET fieldErrors ==
            (IF rawData.id.k = "uuid" THEN {} ELSE {"id"})
            \cup (IF rawData.supplier_name.length >= 1 /\ rawData.supplier_name.length <= 255
                  THEN {} ELSE {"supplier_name"})
            \cup (IF NonNegative(rawData.total_amount) THEN {} ELSE {"total_amount"})
            \cup (IF NonNegative(rawData.weight_kg) THEN {} ELSE {"weight_kg"})
            \cup (IF NonNegative(rawData.price_per_kg) THEN {} ELSE {"price_per_kg"})
            \cup (IF rawData.status \in RECEIPT_STATUS THEN {} ELSE {"status"})
    IN  IF fieldErrors = {}
        THEN [success |-> TRUE,
              data |-> [id |-> rawData.id.n,
                        supplier_name |-> rawData.supplier_name.text,
                        transaction_date |-> TransformDate(rawData.transaction_date),
                        total_amount |-> rawData.total_amount,
                        weight_kg |-> rawData.weight_kg,
                        price_per_kg |-> rawData.price_per_kg,
                        status |-> rawData.status]]
        ELSE [success |-> FALSE, fieldErrors |-> fieldErrors]

\* The submissions of a run: well-formed ones (an amount given, one null, one
\* absent) that name the first row of the table, with each status the form
\* may carry, and four that the schema rejects.
Form(id, status) ==
    [ id |-> Uuid(id),
      supplier_name |-> Name("corrected", 9),
      transaction_date |-> Val(DateText("2026-01-19", TRUE)),
      total_amount |-> Val(1200),
      weight_kg |-> Null,
      price_per_kg |-> Undefined,
      status |-> status ]

RawDatas ==
    { Form(1, status) : status \in RECEIPT_STATUS }
    \cup { [Form(1, "completed") EXCEPT !.id = NoUuid],
           [Form(1, "completed") EXCEPT !.supplier_name = Name("", 0)],
           [Form(1, "completed") EXCEPT !.total_amount = Val(-1)],
           [Form(1, "processing") EXCEPT !.transaction_date = Val(DateText("", FALSE))] }

\* The results of the two actions.  The messages are in Thai in the source.
InvalidData(fieldErrors) ==
    [success |-> FALSE, error |-> <<"The data is invalid, please check again">>,
     details |-> fieldErrors]
LoginRequired == Failure(<<"Please log in before editing">>)
SaveFailed == Failure(<<"An error occurred while saving, please try again">>)
Redirected == [redirect |-> "/receipts"]
Saved == [success |-> TRUE]

\* Mutant of UpdateValues: the status of the form is written.
UpdateValuesFormStatus(data) ==
    [ supplier_name |-> Val(data.supplier_name),
      transaction_date |-> data.transaction_date,
      total_amount |-> data.total_amount,
      weight_kg |-> data.weight_kg,
      price_per_kg |-> data.price_per_kg,
      status |-> data.status,
      updated_at |-> "new Date().toISOString()" ]

\* The object passed to update().
UpdateValues(data) ==
    [ supplier_name |-> Val(data.supplier_name),
      transaction_date |-> data.transaction_date,
      total_amount |-> data.total_amount,
      weight_kg |-> data.weight_kg,
      price_per_kg |-> data.price_per_kg,
      status |-> "completed",
      updated_at |-> "new Date().toISOString()" ]

\* A column after the update: a key whose value is undefined is not sent.
Column(old, new) == IF new = Undefined THEN old ELSE new

\* Mutant of UpdatedRow: the update also clears the raw extraction.
UpdatedRowClearsRaw(r, values) ==
    [r EXCEPT !.supplier_name = Column(@, values.supplier_name),
              !.transaction_date = Column(@, values.transaction_date),
              !.total_amount = Column(@, values.total_amount),
              !.weight_kg = Column(@, values.weight_kg),
              !.price_per_kg = Column(@, values.price_per_kg),
              !.status = values.status,
              !.raw_ocr_data = Null,
              !.updated_at = "NOW() at update"]

\* A row after UPDATE ... SET values; the trigger update_receipts_updated_at
\* then sets updated_at to NOW().
UpdatedRow(r, values) ==
    [r EXCEPT !.supplier_name = Column(@, values.supplier_name),
              !.transaction_date = Column(@, values.transaction_date),
              !.total_amount = Column(@, values.total_amount),
              !.weight_kg = Column(@, values.weight_kg),
              !.price_per_kg = Column(@, values.price_per_kg),
              !.status = values.status,
              !.updated_at = "NOW() at update"]

\* Mutant of MatchesUpdate: the filter on user_id is missing.
MatchesUpdateAnyOwner(r, id, userId) == r.id = id

\* .eq("id", data.id).eq("user_id", user.id), under the policy "Users can
\* update own receipts".
MatchesUpdate(r, id, userId) == r.id = id /\ r.user_id = userId

\* The table after the update.
UpdateRows(id, userId, values) ==
    {IF MatchesUpdate(r, id, userId) THEN UpdatedRow(r, values) ELSE r : r \in receipts}

\* Mutant of Correct: without a user the update is issued all the same,
\* filtered by id alone.
CorrectWithoutLogin(saved) ==
    /\ numCorrections < MaxCorrections
    /\ numCorrections' = numCorrections + 1
    /\ \E rawData \in RawDatas :
         LET validationResult == updateReceiptSchema(rawData)
             Ended(u, update, res) ==
                 correction' = [rawData |-> rawData, user |-> u,
                                update |-> update, result |-> res]
         IN  IF ~validationResult.success
             THEN /\ Ended(Undefined, "none", InvalidData(validationResult.fieldErrors))
                  /\ UNCHANGED receipts
             ELSE \E u \in {Null} \cup {Val(id) : id \in Users} :
                    LET data == validationResult.data
                    IN  IF u = Null
                        THEN /\ receipts' = {IF r.id = data.id
                                             THEN UpdatedRow(r, UpdateValues(data))
                                             ELSE r : r \in receipts}
                             /\ Ended(u, "ok", saved)
                        ELSE \/ /\ receipts' = UpdateRows(data.id, u.v, UpdateValues(data))
                                /\ Ended(u, "ok", saved)
                             \/ /\ UNCHANGED receipts
                                /\ Ended(u, "error", SaveFailed)
    /\ UNCHANGED <<attemptVars, blobs, nextId, clientVars, exVars, pureVars>>

\* One manual correction, whose successful end is `saved`: validation,
\* getUser, the update, the cache invalidation.  `update` tells how the
\* update call ended: "none" (not issued), "ok", or "error".
Correct(saved) ==
    /\ numCorrections < MaxCorrections
    /\ numCorrections' = numCorrections + 1
    /\ \E rawData \in RawDatas :
         LET validationResult == updateReceiptSchema(rawData)
             Ended(u, update, res) ==
                 correction' = [rawData |-> rawData, user |-> u,
                                update |-> update, result |-> res]
         IN  IF ~validationResult.success
             THEN /\ Ended(Undefined, "none", InvalidData(validationResult.fieldErrors))
                  /\ UNCHANGED receipts
             ELSE \E u \in {Null} \cup {Val(id) : id \in Users} :
                    IF u = Null
                    THEN /\ Ended(u, "none", LoginRequired)
                         /\ UNCHANGED receipts
                    ELSE LET data == validationResult.data
                         IN  \/ /\ receipts' = UpdateRows(data.id, u.v, UpdateValues(data))
                                /\ Ended(u, "ok", saved)
                             \/ /\ receipts' = UpdateRows(data.id, u.v, UpdateValues(data))
                                /\ Ended(u, "ok", SaveFailed)
                             \/ /\ UNCHANGED receipts
                                /\ Ended(u, "error", SaveFailed)
    /\ UNCHANGED <<attemptVars, blobs, nextId, clientVars, exVars, pureVars>>

\* updateReceipt: after a successful update it leaves by redirect("/receipts").
updateReceipt == Correct(Redirected)

\* updateReceiptInline: after a successful update it returns {success: true}.
updateReceiptInline == Correct(Saved)

NextCorrection == Next \/ updateReceipt \/ updateReceiptInline

SpecCorrection == Init /\ [][NextCorrection]_vars

\* ------------------------------ the scoring step of uploadReceipt, alone

\* What analyzeReceipt can return: an error, or the object JSON.parse made of
\* the answer, in which each expected field has a value, is null or is absent.
FieldValue(f) ==
    IF f \in {"total_amount", "weight_net", "price_per_ton"} THEN Val(3000) ELSE Val("text")

ParsedObjects ==
    { [f \in Fields |-> IF shape[f] = "value" THEN FieldValue(f)
                        ELSE IF shape[f] = "null" THEN Null ELSE Undefined] :
        shape \in [Fields -> {"value", "null", "absent"}] }

ExtractorResults ==
    { [data |-> Val(d), error |-> Null] : d \in ParsedObjects }
    \cup { [data |-> Null, error |-> Val(NotConfiguredError)],
           AllModelsFailed(<< <<VISION_MODELS[1], ": ", "Empty response">> >>) }

\* Steps [4] and the status of [6] of uploadReceipt on one extractor result.
ScoreStep ==
    /\ scResult = Undefined
    /\ \E ocrResult \in ExtractorResults :
         /\ scResult' = ocrResult
         /\ scData' = OcrOutcome(ocrResult).ocrData
         /\ scError' = OcrOutcome(ocrResult).ocrError
         /\ scConfidence' = OcrOutcome(ocrResult).ocrConfidence
         /\ scStatus' = Status(OcrOutcome(ocrResult).ocrData,
                               OcrOutcome(ocrResult).ocrConfidence)
    /\ UNCHANGED <<attemptVars, storeVars, clientVars, exVars, correctionVars, cjVars>>

SpecScore == Init /\ [][ScoreStep]_vars

\* ------------------------------------------------------- cleanJSON, alone

Tokens == {WS, FenceJson, Fence, LBrace, RBrace, Txt}

\* The texts cleanJSON is called with: every text of at most MaxTextLen tokens.
RawTexts == UNION {[1..n -> Tokens] : n \in 0..MaxTextLen}

CleanJSONCall ==
    /\ cjRawText = Undefined
    /\ \E text \in RawTexts :
         /\ cjRawText' = Val(text)
         /\ cjResult' = cleanJSON(text)
    /\ UNCHANGED <<attemptVars, storeVars, clientVars, exVars, correctionVars, scVars>>

SpecClean == Init /\ [][CleanJSONCall]_vars

\* -------------------------------------------- analyzeReceipt, step by step

\* getAIClient and the early return when there is no client.
ExStart ==
    /\ exPc = "start"
    /\ LET client == getAIClient(openRouterClient, apiKeySet)
       IN  /\ openRouterClient' = client
           /\ IF ~client
              THEN /\ exResult' = [data |-> Null, error |-> Val(NotConfiguredError)]
                   /\ exPc' = "done"
              ELSE /\ exPc' = "loop"
                   /\ UNCHANGED exResult
    /\ UNCHANGED <<exIndex, exErrors, exRequests, exResponses>>
    /\ UNCHANGED <<attemptVars, storeVars, apiKeySet, correctionVars, pureVars>>

\* Mutant of ExTryModel: the return inside the loop is missing, so the loop
\* goes on to the next model after a success.
ExTryModelNoReturn ==
    /\ exPc = "loop"
    /\ exIndex <= Len(VISION_MODELS)
    /\ \E resp \in Responses :
         LET r == TryModel(VISION_MODELS[exIndex], resp)
         IN  /\ exRequests' = Append(exRequests, VISION_MODELS[exIndex])
             /\ exResponses' = Append(exResponses, resp)
             /\ exIndex' = exIndex + 1
             /\ IF r.ok
                THEN /\ exResult' = [data |-> r.data, error |-> Null]
                     /\ UNCHANGED exErrors
                ELSE /\ exErrors' = Append(exErrors, r.diag)
                     /\ UNCHANGED exResult
             /\ UNCHANGED exPc
    /\ UNCHANGED <<attemptVars, storeVars, clientVars, correctionVars, pureVars>>

\* One iteration of the loop: the request to the model at exIndex, its
\* answer, and either the return of the parsed data or one more diagnostic.
ExTryModel ==
    /\ exPc = "loop"
    /\ exIndex <= Len(VISION_MODELS)
    /\ \E resp \in Responses :
         LET r == TryModel(VISION_MODELS[exIndex], resp)
         IN  /\ exRequests' = Append(exRequests, VISION_MODELS[exIndex])
             /\ exResponses' = Append(exResponses, resp)
             /\ IF r.ok
                THEN /\ exResult' = [data |-> r.data, error |-> Null]
                     /\ exPc' = "done"
                     /\ UNCHANGED <<exIndex, exErrors>>
                ELSE /\ exErrors' = Append(exErrors, r.diag)
                     /\ exIndex' = exIndex + 1
                     /\ UNCHANGED <<exPc, exResult>>
    /\ UNCHANGED <<attemptVars, storeVars, clientVars, correctionVars, pureVars>>

\* The loop is over: every model failed.
ExAllFailed ==
    /\ exPc = "loop"
    /\ exIndex > Len(VISION_MODELS)
    /\ exResult' = AllModelsFailed(exErrors)
    /\ exPc' = "done"
    /\ UNCHANGED <<exIndex, exErrors, exRequests, exResponses>>
    /\ UNCHANGED <<attemptVars, storeVars, clientVars, correctionVars, pureVars>>

NextExtract == ExStart \/ ExTryModel \/ ExAllFailed

SpecExtract == Init /\ [][NextExtract]_vars

\* =================================================================== claims

Done(a) == pc[a] = "done"

\* How the call `op` of attempt a ended, "none" if a issued no such call.
\* (An attempt issues each of upload, insert and remove at most once.)
Outcome(a, op) ==
    IF \E i \in DOMAIN calls[a] : calls[a][i].op = op
    THEN calls[a][CHOOSE i \in DOMAIN calls[a] : calls[a][i].op = op].outcome
    ELSE "none"

\* The path of the upload call of attempt a.
UploadPath(a) == calls[a][CHOOSE i \in DOMAIN calls[a] : calls[a][i].op = "upload"].path

\* The blob is referenced by a row that the attempt which uploaded it inserted.
ReferencedByOwnRow(b) ==
    /\ IsVal(receipt[b.by])
    /\ \E r \in receipts : r.id = receipt[b.by].v.id /\ r.image_url = PublicUrl(b.path)

\* C1 (as claimed): whenever the insert of an attempt fails after its upload
\* succeeded, by a returned error or by a throw, the attempt has called the
\* object store's remove with the very path of its upload before it returns.
C1_DeleteOnEveryInsertFailure ==
    \A a \in Attempts :
        (Done(a) /\ Outcome(a, "upload") = "ok" /\ Outcome(a, "insert") \in {"error", "throw"})
        => \E i \in DOMAIN calls[a] :
              calls[a][i].op = "remove" /\ calls[a][i].path = UploadPath(a)

\* C2 (as claimed): when the insert fails and the compensating remove fails
\* too, by a returned error or by a throw, the attempt still returns the
\* insert's error.
C2_InsertErrorSurvivesCleanupFailure ==
    \A a \in Attempts :
        (Done(a) /\ Outcome(a, "insert") = "error" /\ Outcome(a, "remove") \in {"error", "throw"})
        => result[a] = Failure(InsertFailed(dbError[a].v.message))

\* C3: in every reachable state every row of the receipts table references a
\* blob that the object store holds, and an attempt issues its insert only
\* after its own upload succeeded.
C3_RowsReferenceStoredBlobs ==
    /\ \A r \in receipts : \E b \in blobs : r.image_url = PublicUrl(b.path)
    /\ \A a \in Attempts : \A i \in DOMAIN calls[a] :
          calls[a][i].op = "insert"
          => \E j \in 1..(i - 1) :
                /\ calls[a][j] = [op |-> "upload", path |-> fileName[a].v, outcome |-> "ok"]
                /\ calls[a][i].payload.image_url = PublicUrl(calls[a][j].path)

\* C3 witness: a row exists whose path another attempt uploaded before,
\* failed to record, and removed again.
C3_Witness ==
    \E a, b \in Attempts :
        /\ a # b
        /\ IsVal(receipt[a])
        /\ Outcome(b, "remove") = "ok"
        /\ fileName[a] = fileName[b]

Unacceptable(f) ==
    \/ ~IsVal(f)
    \/ f.v.size > 5 * 1024 * 1024
    \/ f.v.type \notin {"image/jpeg", "image/jpg", "image/png", "image/webp"}

ValidationFailures ==
    { Failure(<<"No file provided">>),
      Failure(<<"File is required">>),
      Failure(<<"File size must be less than 5MB">>),
      Failure(<<"Only JPEG, PNG, and WebP images are allowed">>) }

C7_UnauthenticatedNoSideEffect ==
    \A a \in Attempts :
        user[a] = Null =>
            /\ Done(a)
            /\ result[a] = Failure(<<"Unauthorized - Please login to upload receipts">>)
            /\ calls[a] = << [op |-> "getUser", outcome |-> "ok"] >>
            /\ \A b \in blobs : b.by # a
            /\ receipt[a] = Undefined

\* C7 witness: an unauthenticated attempt has returned while the other
\* attempt, authenticated, has stored a receipt.
C7_Witness ==
    \E a, b \in Attempts : user[a] = Null /\ Done(a) /\ IsVal(receipt[b])

\* The answer of a model is usable: it carries content that passes cleanJSON
\* and that JSON.parse accepts.
Usable(resp) ==
    /\ resp.kind = "content"
    /\ IsVal(cleanJSON(resp.content))
    /\ JSONParse(cleanJSON(resp.content).v).ok

ModelNames == {VISION_MODELS[i] : i \in DOMAIN VISION_MODELS}

\* C8: the requests of a run of analyzeReceipt go to the models of
\* VISION_MODELS in chain order, one request per answer; as soon as an answer
\* is usable the run has returned its parsed data with a null error, and no
\* request follows it.
C8_FirstUsableAnswerWins ==
    /\ exRequests = SubSeq(VISION_MODELS, 1, Len(exRequests))
    /\ Len(exResponses) = Len(exRequests)
    /\ \A i \in DOMAIN exResponses :
          Usable(exResponses[i]) =>
              /\ i = Len(exRequests)
              /\ exPc = "done"
              /\ exResult = [data |-> Val(JSONParse(cleanJSON(exResponses[i].content).v).value),
                             error |-> Null]

\* C8 witness: the first model failed and the second gave a usable answer.
C8_Witness ==
    /\ Len(exResponses) = 2
    /\ ~Usable(exResponses[1])
    /\ Usable(exResponses[2])

EveryModelFailed ==
    /\ exPc = "done"
    /\ Len(exResponses) = Len(VISION_MODELS)
    /\ \A i \in DOMAIN exResponses : ~Usable(exResponses[i])

\* C9: when every model of the chain failed, the run returns null data and
\* an error string in which each model of the chain is named exactly once,
\* in chain order, each name followed by ": " and a diagnostic.
C9_ErrorNamesEveryModel ==
    EveryModelFailed =>
        /\ exResult.data = Null
        /\ IsVal(exResult.error)
        /\ LET e == exResult.error.v
           IN  /\ SelectSeq(e, LAMBDA x : x \in ModelNames) = VISION_MODELS
               /\ \A p \in DOMAIN e :
                     e[p] \in ModelNames
                     => /\ p + 2 <= Len(e)
                        /\ e[p + 1] = ": "
                        /\ e[p + 2] \notin ModelNames \cup {" | "}

\* C9 witness: the three models failed in three different ways: a throw, an
\* empty answer and an answer JSON.parse rejects.
C9_Witness ==
    /\ EveryModelFailed
    /\ exResponses[1].kind = "throw"
    /\ exResponses[2] = [kind |-> "content", content |-> <<>>]
    /\ exResponses[3] = [kind |-> "content", content |-> <<LBrace, Txt, RBrace>>]

\* C10: a run of analyzeReceipt that has not returned can take a step (no
\* answer of the service stops it), every answer that is not usable has
\* become a diagnostic of its model, and a run that has returned has
\* returned exactly one of data and error non-null.
C10_ExactlyOneOfDataAndError ==
    /\ exPc # "done" => exResult = Undefined /\ ENABLED NextExtract
    /\ \A i \in DOMAIN exResponses :
          ~Usable(exResponses[i])
          => i <= Len(exErrors) /\ exErrors[i][1] = VISION_MODELS[i]
    /\ exPc = "done" =>
          /\ exResult # Undefined
          /\ IsVal(exResult.data) # IsVal(exResult.error)
          /\ exResult.data # Undefined /\ exResult.error # Undefined

\* C10 witness: a run has returned data although an earlier model threw.
C10_Witness ==
    /\ exPc = "done"
    /\ IsVal(exResult.data)
    /\ \E i \in DOMAIN exResponses : exResponses[i].kind = "throw"

\* The calls of attempt a to a collaborator operation, as positions in calls[a].
CallsOf(a, op) == {i \in DOMAIN calls[a] : calls[a][i].op = op}

\* The status the claim gives for (extracted data present, confidence score).
ClaimedStatus(rawExtraction, score) ==
    IF rawExtraction = Null THEN "pending"
    ELSE IF score.v >= 50 THEN "completed"
    ELSE "processing"

\* A manual correction has updated the table and has ended as a success.
CorrectionSucceeded ==
    /\ correction # Undefined
    /\ correction.update = "ok"
    /\ correction.result \in {Redirected, Saved}

Filled(data) ==
    Cardinality({f \in {"supplier_name", "date", "total_amount", "cane_type",
                        "weight_net", "price_per_ton"} : IsVal(data[f])})

\* C12: after the scoring step the confidence is null exactly when the
\* extracted data is null; otherwise, with f fields filled, it is the integer
\* in 0..100 nearest to 100*f/6 (halves upwards), so that 3 filled fields give
\* 50 and completed, 2 give 33 and processing, and 0 give 0, not null.
C12_ConfidenceIsRoundedShare ==
    scResult # Undefined =>
        /\ (scConfidence = Null) <=> (scData = Null)
        /\ scData = scResult.data
        /\ IsVal(scData) =>
              LET f == Filled(scData.v)
                  s == scConfidence.v
              IN  /\ s \in 0..100
                  /\ 100 * f + 3 - 6 * s \in 0..5
                  /\ f = 3 => s = 50 /\ scStatus = "completed"
                  /\ f = 2 => s = 33 /\ scStatus = "processing"
                  /\ f = 0 => s = 0

\* C12 witness: an extraction with three filled fields, one null and two
\* absent has been scored 50.
C12_Witness ==
    /\ IsVal(scData)
    /\ Filled(scData.v) = 3
    /\ \E f \in Fields : scData.v[f] = Null
    /\ \E f \in Fields : scData.v[f] = Undefined
    /\ scConfidence = Val(50)

\* A text without its fence markers: each marker goes, together with the
\* whitespace that directly follows it.
RECURSIVE WithoutMarkers(_)
WithoutMarkers(s) ==
    IF s = <<>> THEN <<>>
    ELSE IF Head(s) \in {Fence, FenceJson}
    THEN LET rest == Tail(s)
             k == IF \E i \in DOMAIN rest : rest[i] # WS
                  THEN (CHOOSE i \in DOMAIN rest :
                            rest[i] # WS /\ \A j \in 1..(i - 1) : rest[j] = WS) - 1
                  ELSE Len(rest)
         IN  WithoutMarkers(SubSeq(rest, k + 1, Len(rest)))
    ELSE <<Head(s)>> \o WithoutMarkers(Tail(s))

Positions(s, c) == {i \in DOMAIN s : s[i] = c}
First(S) == CHOOSE i \in S : \A j \in S : i <= j
Last(S) == CHOOSE i \in S : \A j \in S : j <= i

UploadErrors ==
    { Failure(<<"Failed to upload file: ">> \o message) :
        message \in {<<"The resource already exists">>, <<"Bucket not found">>} }
    \cup { Failure(<<"upload", " threw">>) }

\* C14: an attempt whose upload failed (it returned an error or it threw)
\* has returned an upload error, has issued no insert and no delete, and has
\* added no record and no blob.
C14_UploadFailureAborts ==
    \A a \in Attempts :
        Outcome(a, "upload") \in {"error", "throw"} =>
            /\ Done(a)
            /\ result[a] \in UploadErrors
            /\ CallsOf(a, "insert") = {} /\ CallsOf(a, "remove") = {}
            /\ receipt[a] = Undefined
            /\ \A b \in blobs : b.by # a

\* C14 witness: an attempt's upload was refused because another attempt's
\* record already holds the path, and that record is still in the table.
C14_Witness ==
    \E a, b \in Attempts :
        /\ Outcome(a, "upload") = "error"
        /\ result[a] = Failure(<<"Failed to upload file: ", "The resource already exists">>)
        /\ IsVal(receipt[b])
        /\ \E r \in receipts : r.id = receipt[b].v.id /\ r.image_url = PublicUrl(UploadPath(a))

\* A result of uploadReceipt: {success: true, data} or {success: false, error}.
Discriminated(r) ==
    /\ "success" \in DOMAIN r
    /\ IF r.success THEN "receiptId" \in DOMAIN r /\ "error" \notin DOMAIN r
       ELSE "error" \in DOMAIN r /\ r.error # <<>>

\* C15: every attempt that was invoked returns, and what it returns is a
\* discriminated result, whichever of getUser, the inference service, the
\* object store, the relational store and revalidatePath throws.
C15_AlwaysReturnsAResult ==
    /\ [](\A a \in Attempts : Done(a) => Discriminated(result[a]))
    /\ \A a \in Attempts : (pc[a] # "start") ~> Done(a)

\* C15 witness: revalidatePath threw in one attempt and getUser rejected
\* with a value that is no Error in the other, and both have returned.
C15_Witness ==
    \E a, b \in Attempts :
        /\ Outcome(a, "revalidatePath") = "throw" /\ Done(a) /\ ~result[a].success
        /\ Outcome(b, "getUser") = "throw" /\ Done(b)
        /\ result[b] = Failure(<<"An unexpected error occurred">>)

\* The row that attempt a inserted, if it is in the table.
RowsOf(a) == {r \in receipts : IsVal(receipt[a]) /\ r.id = receipt[a].v.id}

CorrectionStep == numCorrections' = numCorrections + 1

\* C17: a manual correction changes a row only if the row's id is the
\* submitted id and the row's owner is the authenticated principal; it adds
\* and removes no row, and the changed row keeps its id and its owner.
C17_CorrectionScopedToOwner ==
    [][CorrectionStep =>
          /\ \A r \in receipts :
                r \notin receipts' =>
                    /\ IsVal(correction'.user)
                    /\ r.user_id = correction'.user.v
                    /\ correction'.rawData.id = Uuid(r.id)
          /\ {[id |-> r.id, user_id |-> r.user_id] : r \in receipts'}
                = {[id |-> r.id, user_id |-> r.user_id] : r \in receipts}
          /\ Cardinality(receipts') = Cardinality(receipts)]_vars

\* C17 witness: a principal submitted the id of a record of another owner;
\* the update was issued without error and the record is as it was inserted.
C17_Witness ==
    /\ correction # Undefined
    /\ correction.update = "ok"
    /\ \E r \in receipts :
          /\ correction.rawData.id = Uuid(r.id)
          /\ r.user_id # correction.user.v
          /\ r.updated_at = "NOW() at insert"
          /\ r.status # "completed"

\* The rows a successful manual correction was applied to: the submitted id,
\* owned by the principal who submitted it.
CorrectedRows ==
    {r \in receipts : /\ CorrectionSucceeded
                      /\ correction.rawData.id = Uuid(r.id)
                      /\ r.user_id = correction.user.v}

\* C18: after a successful manual correction of a record its status is
\* completed, whatever the form carried and whatever the status was, and its
\* verification_status is no longer unverified.
C18_CorrectionCompletesAndVerifies ==
    \A r \in CorrectedRows :
        /\ r.status = "completed"
        /\ r.verification_status # "unverified"

\* C19: no insert of uploadReceipt carries a verification_status; a step of
\* ingestion leaves every existing row as it is, and the row it adds, if any,
\* is unverified.
C19_IngestionLeavesVerificationAlone ==
    /\ [](\A a \in Attempts : \A i \in CallsOf(a, "insert") :
            "verification_status" \notin DOMAIN calls[a][i].payload)
    /\ [][~CorrectionStep =>
            /\ receipts \subseteq receipts'
            /\ \A r \in receipts' \ receipts : r.verification_status = "unverified"]_vars

\* C19 witness: after a manual correction of the first record, a second
\* ingestion attempt has inserted its record, unverified.
C19_Witness ==
    /\ CorrectedRows # {}
    /\ \E a \in Attempts : \E r \in RowsOf(a) :
          /\ r.id = 2
          /\ r.verification_status = "unverified"
          /\ r.status = "completed"
          /\ \A c \in CorrectedRows : c.id = 1 /\ c.updated_at = "NOW() at update"

\* The place of a collaborator call in the order of the steps.
StepRank(op) ==
    CASE op = "getUser" -> 1
      [] op = "infer" -> 2
      [] op = "upload" -> 3
      [] op = "insert" -> 4
      [] op = "remove" -> 5
      [] op = "revalidatePath" -> 5

\* C20: the calls of an attempt are issued in the order authentication,
\* extraction, upload, insert; the insert is issued only after the put
\* succeeded; and an attempt that returned an error left at the
\* authentication or the validation (before any inference request), at a
\* failed upload, or at a failed insert.
C20_StepsInOrderThreeErrorExits ==
    \A a \in Attempts :
        /\ \A i, j \in DOMAIN calls[a] :
              i < j => StepRank(calls[a][i].op) <= StepRank(calls[a][j].op)
        /\ CallsOf(a, "upload") # {} => pc[a] \notin {"start", "validate", "extract"}
        /\ CallsOf(a, "insert") # {} => Outcome(a, "upload") = "ok"
        /\ (Done(a) /\ ~result[a].success) =>
              \/ CallsOf(a, "infer") = {} /\ CallsOf(a, "upload") = {}
                    /\ (user[a] = Null \/ Outcome(a, "getUser") = "throw"
                        \/ (file[a] # Undefined /\ Unacceptable(file[a])))
              \/ Outcome(a, "upload") \in {"error", "throw"}
              \/ Outcome(a, "insert") \in {"error", "throw"}

\* C21: within one attempt nothing is issued twice: each model of the chain
\* receives at most one inference request, and the put, the insert and the
\* compensating delete are each issued at most once.
C21_NothingRetried ==
    \A a \in Attempts :
        /\ \A i, j \in CallsOf(a, "infer") :
              i # j => calls[a][i].model # calls[a][j].model
        /\ Cardinality(CallsOf(a, "upload")) <= 1
        /\ Cardinality(CallsOf(a, "insert")) <= 1
        /\ Cardinality(CallsOf(a, "remove")) <= 1

\* An attempt has returned after every model failed, the put succeeded and
\* the insert failed, and a second attempt has returned after a failed put.
C21_Witness ==
    \E a, b \in Attempts :
        /\ Done(a) /\ Done(b)
        /\ Cardinality(CallsOf(a, "infer")) = Len(VISION_MODELS)
        /\ \A i \in CallsOf(a, "infer") : calls[a][i].outcome = "throw" \/ IsVal(ocrError[a])
        /\ Outcome(a, "upload") = "ok"
        /\ Outcome(a, "insert") = "error"
        /\ Cardinality(CallsOf(a, "remove")) = 1
        /\ Outcome(b, "upload") = "error"
        /\ ~result[a].success /\ ~result[b].success

\* C22 (as claimed): every path an attempt puts to begins with the owner id
\* of that attempt, and no two attempts ever write (put successfully) to the
\* same path.
C22_PathsOwnedAndNeverReused ==
    \A a \in Attempts : \A i \in CallsOf(a, "upload") :
        /\ calls[a][i].path.owner = user[a].v
        /\ \A b \in Attempts \ {a} : \A j \in CallsOf(b, "upload") :
              (calls[a][i].outcome = "ok" /\ calls[b][j].outcome = "ok")
                  => calls[a][i].path # calls[b][j].path

\* The attempts whose insert created the row r.
CreatorsOf(r) ==
    {a \in Attempts : /\ Outcome(a, "insert") = "ok"
                      /\ IsVal(receipt[a]) /\ receipt[a].v.id = r.id}

\* C23: every row was created by the one insert of exactly one attempt, which
\* wrote its status; a step of ingestion leaves every existing row as it is;
\* a manual correction changes only rows that exist already (it adds and
\* removes none); and a row on which a correction forced completed keeps that
\* state under every later step of ingestion.
C23_WritersNeverRace ==
    /\ [](\A r \in receipts :
            /\ Cardinality(CreatorsOf(r)) = 1
            /\ \A a \in CreatorsOf(r) : Cardinality(CallsOf(a, "insert")) = 1)
    /\ [][IF CorrectionStep
          THEN {r.id : r \in receipts'} = {r.id : r \in receipts}
          ELSE receipts \subseteq receipts']_vars
    /\ [][\A r \in receipts :
            (r.updated_at = "NOW() at update" /\ ~CorrectionStep)
               => (r \in receipts' /\ r.status = "completed")]_vars

\* A record stored without extracted data was corrected and is completed;
\* another attempt of the same principal has inserted its own record, in
\* processing, and has returned success.
C23_Witness ==
    /\ CorrectedRows # {}
    /\ \A c \in CorrectedRows :
          /\ c.status = "completed" /\ c.updated_at = "NOW() at update"
          /\ c.raw_ocr_data = Null
    /\ \E a \in Attempts :
          /\ Done(a) /\ result[a].success
          /\ \E r \in RowsOf(a) : r.id = 2 /\ r.status = "processing"
                                  /\ r.user_id = correction.user.v

\* C24 (as claimed): the ocr_confidence_score of every insert that ingestion
\* issues is null or lies in the range the schema declares for the column.
C24_ScoreWithinDeclaredRange ==
    \A a \in Attempts : \A i \in CallsOf(a, "insert") :
        LET score == calls[a][i].payload.ocr_confidence_score
        IN  IsVal(score) => /\ score.v >= OcrConfidenceScoreColumn.min
                            /\ score.v <= OcrConfidenceScoreColumn.max

\* C25 (as claimed): a manual-correction submission whose status is a value
\* of the database enum, in particular the status that ingestion wrote to the
\* record it names, is not rejected for its status field.
C25_SchemaAcceptsEveryStoredStatus ==
    \A r \in receipts :
        ( /\ correction # Undefined
          /\ correction.rawData.id = Uuid(r.id)
          /\ correction.rawData.status \in receipt_status
          /\ correction.rawData.status = r.status
          /\ r.updated_at = "NOW() at insert" )
        => ~( /\ "details" \in DOMAIN correction.result
              /\ "status" \in correction.result.details )

\* C26 (as claimed): an attempt that returned success inserted a row and
\* returned the id of that row; an attempt that returned a failure has no row
\* of its own in the table.
C26_ResultAgreesWithStore ==
    \A a \in Attempts :
        Done(a) =>
            IF result[a].success
            THEN /\ Outcome(a, "insert") = "ok"
                 /\ \E r \in RowsOf(a) : r.id = result[a].receiptId
            ELSE RowsOf(a) = {}

\* The record is consistent: raw_ocr_data, ocr_confidence_score and
\* processed_at are null together, exactly when error_message is not null,
\* exactly when the status is pending.
Consistent(r) ==
    LET noData == r.raw_ocr_data = Null
    IN  /\ noData <=> r.ocr_confidence_score = Null
        /\ noData <=> r.processed_at = Null
        /\ noData <=> r.error_message # Null
        /\ noData <=> r.status = "pending"

RemoveStepOf(a) ==
    /\ Len(calls'[a]) = Len(calls[a]) + 1
    /\ calls'[a][Len(calls'[a])].op = "remove"

\* C28: a blob leaves the object store only in a step in which the attempt
\* that uploaded it issues its compensating delete, for the path of its own
\* upload, and no row references the blob.
C28_DeleteOnlyOwnBlob ==
    [][\A b \in blobs \ blobs' :
          /\ RemoveStepOf(b.by)
          /\ calls'[b.by][Len(calls'[b.by])].path = b.path
          /\ b.path = UploadPath(b.by)
          /\ \A r \in receipts : r.image_url # PublicUrl(b.path)]_vars

\* Two attempts computed the same path; the put of the second was refused
\* while the blob of the first was in the store, and the first has removed
\* its blob after its insert failed.
C28_Witness ==
    \E a, b \in Attempts :
        /\ a # b
        /\ Outcome(a, "upload") = "ok" /\ Outcome(b, "upload") = "error"
        /\ UploadPath(a) = UploadPath(b)
        /\ result[b] = Failure(UploadFailed(<<"The resource already exists">>))
        /\ Outcome(a, "insert") = "error"
        /\ Outcome(a, "remove") = "ok"
        /\ blobs = {}

\* C29: when the API key is not set, no attempt issues an inference request;
\* an attempt that has passed the extraction holds no data and the error of
\* the unconfigured client, is not ended by it (it returns only after it has
\* issued its upload), and the record it inserts is pending with that error
\* as error_message.
C29_UnconfiguredClientStillStores ==
    ~apiKeySet =>
        \A a \in Attempts :
            /\ CallsOf(a, "infer") = {}
            /\ ~openRouterClient
            /\ (pc[a] \in {"upload", "insert", "remove", "revalidate"}
                    \/ Outcome(a, "upload") # "none")
                  => /\ ocrData[a] = Null
                     /\ ocrError[a] = Val(NotConfiguredError)
            /\ (Done(a) /\ IsVal(ocrError[a])) => Outcome(a, "upload") # "none"
            /\ \A i \in CallsOf(a, "insert") :
                  /\ calls[a][i].payload.status = "pending"
                  /\ calls[a][i].payload.raw_ocr_data = Null
                  /\ calls[a][i].payload.error_message = Val(NotConfiguredError)
            /\ \A r \in RowsOf(a) :
                  r.status = "pending" /\ r.error_message = Val(NotConfiguredError)

\* Without an API key an attempt has returned success and its record is in
\* the table, pending.
C29_Witness ==
    /\ ~apiKeySet
    /\ \E a \in Attempts :
          /\ Done(a) /\ result[a].success
          /\ CallsOf(a, "infer") = {}
          /\ \E r \in RowsOf(a) :
                /\ r.id = result[a].receiptId
                /\ r.status = "pending"
                /\ r.error_message = Val(NotConfiguredError)

\* C30: a manual correction whose submission fails the schema, or that is
\* made without an authenticated user, issues no update, leaves every row as
\* it is, and returns success: false.
C30_RejectedCorrectionChangesNothing ==
    [][(/\ CorrectionStep
        /\ \/ ~updateReceiptSchema(correction'.rawData).success
           \/ correction'.user = Null)
       => /\ correction'.update = "none"
          /\ receipts' = receipts
          /\ "success" \in DOMAIN correction'.result
          /\ correction'.result.success = FALSE]_vars

\* A well-formed submission that names an existing record was made without
\* an authenticated user; it was refused and the record is as ingestion
\* wrote it.
C30_Witness ==
    /\ correction # Undefined
    /\ updateReceiptSchema(correction.rawData).success
    /\ correction.user = Null
    /\ correction.result = LoginRequired
    /\ correction.update = "none"
    /\ \E r \in receipts :
          /\ correction.rawData.id = Uuid(r.id)
          /\ r.status = "processing"
          /\ r.updated_at = "NOW() at insert"

====
